---- MODULE Spec2Model ----
(***************************************************************************)
(* Model of textual's devtools client (src/textual/devtools/client.py):    *)
(* the DevtoolsClient object, the bounded log queue, the send_queued_logs  *)
(* and update_console tasks, and connect()/disconnect()/log().             *)
(*                                                                         *)
(* connect() allocates a new ClientSession and a new Queue each time it is *)
(* called, so the objects a client has created are indexed 1..nconn and    *)
(* the client's attributes hold an index, 0 standing for None.             *)
(***************************************************************************)
EXTENDS Integers, Sequences, FiniteSets, TLC

\* ---------------------------------------------------------------- bounds
\* Queue(maxsize=LOG_QUEUE_MAXSIZE): 512 in client.py line 19, scaled down
\* so that the full queue is reached within the explored log() calls.
LOG_QUEUE_MAXSIZE == 2
\* number of connect() calls explored (objects allocated)
MaxConnects == 2
\* number of inputs explored in one behaviour: connect() calls, log() calls
\* and inbound websocket messages together
MaxInputs == 5
\* number of inbound websocket messages explored
MaxFrames == 2

\* ---------------------------------------------------------------- values
None == 0
Objs == 1..MaxConnects

\* json.dumps({"type": "client_log", "payload": {...}}): the n-th log() call
ClientLog(n) == [type |-> "client_log", n |-> n]
\* json.dumps({"type": "client_spillover", "payload": {"spillover": k}})
SpilloverMessage(k) == [type |-> "client_spillover", n |-> k]
\* the sentinel class put on the queue by _stop_log_queue_processing
ClientShutdown == [type |-> "ClientShutdown", n |-> 0]

\* Inbound websocket messages.  mtype is aiohttp's message type; for a TEXT
\* message, json says whether message.data parses, and the has* fields say
\* which keys the parsed object carries.
Msg(mtype, json, hasType, type, hasPayload, hasWidth, width, hasHeight, height) ==
    [mtype |-> mtype, json |-> json, hasType |-> hasType, type |-> type,
     hasPayload |-> hasPayload, hasWidth |-> hasWidth, width |-> width,
     hasHeight |-> hasHeight, height |-> height]
ServerInfo(w, h) == Msg("TEXT", TRUE, TRUE, "server_info", TRUE, TRUE, w, TRUE, h)
UnknownType      == Msg("TEXT", TRUE, TRUE, "unknown", TRUE, FALSE, 0, FALSE, 0)
OtherType        == Msg("TEXT", TRUE, TRUE, "resize", TRUE, TRUE, 120, TRUE, 50)
NotJson          == Msg("TEXT", FALSE, FALSE, "", FALSE, FALSE, 0, FALSE, 0)
NoType           == Msg("TEXT", TRUE, FALSE, "", TRUE, FALSE, 0, FALSE, 0)
NoWidth          == Msg("TEXT", TRUE, TRUE, "server_info", TRUE, FALSE, 0, TRUE, 50)
NoHeight         == Msg("TEXT", TRUE, TRUE, "server_info", TRUE, TRUE, 100, FALSE, 0)
Binary           == Msg("BINARY", FALSE, FALSE, "", FALSE, FALSE, 0, FALSE, 0)
Messages == {ServerInfo(100, 40), UnknownType, OtherType, NotJson, NoType,
             NoWidth, NoHeight, Binary}

\* A message the protocol allows: not TEXT, or a JSON envelope with a type
\* and, for server_info, a payload with width and height.
WellFormed(m) ==
    \/ m.mtype # "TEXT"
    \/ /\ m.json
       /\ m.hasType
       /\ (m.type = "server_info" => m.hasPayload /\ m.hasWidth /\ m.hasHeight)

\* ---------------------------------------------------------------- state
VARIABLES
    session,             \* self.session: 0 or the index of a ClientSession
    log_queue,           \* self.log_queue: 0 or the index of a Queue
    websocket,           \* self.websocket: 0 or the index of a websocket
    log_queue_task,      \* self.log_queue_task: 0 or the index of a Sender
    update_console_task, \* self.update_console_task: 0 or a Listener index
    spillover,           \* self.spillover
    console,             \* self.console's width and height
    sessClosed,          \* ClientSession.closed of each session object
    queues,              \* the items held by each Queue object
    wsState,             \* "none" | "open" | "closed" for each websocket
    sender,              \* state of each send_queued_logs task
    sending,             \* the item a Sender holds between get() and send_str()
    listener,            \* state of each update_console task
    nconn,               \* number of connect() calls made
    pc,                  \* where the caller of connect()/disconnect() stands
    nlogs,               \* number of log() calls made
    nframes,             \* number of inbound messages delivered
    enq,                 \* history: items put on each queue, in order
    written,             \* history: frames send_str() wrote, per websocket
    dropped,             \* history: log() calls that met QueueFull
    burst,               \* history: log() calls since an empty open queue
    disc,                \* history: what disconnect() saw when it was called
    last,                \* the step taken last and how it ended ("task" for
                         \* a step of a Sender, or of a Listener that ends)
    producer,            \* where each thread that runs log() stands in it
    overlapped           \* history: two log() calls have run interleaved

vars == <<session, log_queue, websocket, log_queue_task, update_console_task,
          spillover, console, sessClosed, queues, wsState, sender, sending,
          listener, nconn, pc, nlogs, nframes, enq, written, dropped, burst,
          disc, last, producer, overlapped>>

client == <<session, log_queue, websocket, log_queue_task, update_console_task>>
hist == <<enq, written, dropped, burst, disc>>
threads == <<producer, overlapped>>

\* the threads that may run log() on the one client, and a thread outside
\* log()
Threads == {1, 2}
Idle == [pc |-> "idle", k |-> 0]

Step(op, exc, n) == [op |-> op, exc |-> exc, n |-> n]

\* inputs taken so far, and whether one more is explored
Inputs == nconn + nlogs + nframes
MoreInputs == Inputs < MaxInputs

\* DevtoolsClient.__init__
Init ==
    /\ session = None
    /\ log_queue = None
    /\ websocket = None
    /\ log_queue_task = None
    /\ update_console_task = None
    /\ spillover = 0
    /\ console = [width |-> 80, height |-> 25]
    /\ sessClosed = [s \in Objs |-> FALSE]
    /\ queues = [s \in Objs |-> <<>>]
    /\ wsState = [s \in Objs |-> "none"]
    /\ sender = [s \in Objs |-> "none"]
    /\ sending = [s \in Objs |-> ClientShutdown]
    /\ listener = [s \in Objs |-> "none"]
    /\ nconn = 0
    /\ pc = "idle"
    /\ nlogs = 0
    /\ nframes = 0
    /\ enq = [s \in Objs |-> <<>>]
    /\ written = [s \in Objs |-> <<>>]
    /\ dropped = {}
    /\ burst = 0
    /\ disc = [lq |-> None, mark |-> 0, first |-> FALSE, connected |-> FALSE]
    /\ last = Step("init", "none", 0)
    /\ producer = [t \in Threads |-> Idle]
    /\ overlapped = FALSE

\* DevtoolsClient.is_connected
is_connected ==
    IF session = None \/ websocket = None
    THEN FALSE
    ELSE ~(sessClosed[session] \/ wsState[websocket] = "closed")

\* ---------------------------------------------------------------- log()
\* mutant: a queue counts as full one item late
Full_OneLate(queue) == Len(queue) > LOG_QUEUE_MAXSIZE

\* Queue.full() / Queue.qsize() as log() and put() use them
Full(queue) == Len(queue) >= LOG_QUEUE_MAXSIZE

\* mutant: the full test is off by one
PutNowait_OffByOne(queue, item) ==
    IF Len(queue) > LOG_QUEUE_MAXSIZE
    THEN [exc |-> "QueueFull", q |-> queue]
    ELSE [exc |-> "none", q |-> Append(queue, item)]

\* Queue.put_nowait: raises QueueFull when full, else appends
PutNowait(queue, item) ==
    IF Full(queue)
    THEN [exc |-> "QueueFull", q |-> queue]
    ELSE [exc |-> "none", q |-> Append(queue, item)]

\* mutant: no except clause, QueueFull leaves log()
log_NoExcept(queue, sp, message) ==
    LET first == PutNowait(queue, message) IN
    IF first.exc = "QueueFull"
    THEN [q |-> first.q, spillover |-> sp, exc |-> "QueueFull"]
    ELSE IF sp > 0 /\ Len(first.q) < LOG_QUEUE_MAXSIZE
         THEN [q |-> Append(first.q, SpilloverMessage(sp)), spillover |-> 0,
               exc |-> "none"]
         ELSE [q |-> first.q, spillover |-> sp, exc |-> "none"]

\* mutant: the notice is attempted whenever self.spillover > 0, room or not
log_NoticeWithoutRoom(queue, sp, message) ==
    LET first == PutNowait(queue, message) IN
    IF first.exc = "QueueFull"
    THEN [q |-> first.q, spillover |-> sp + 1, exc |-> "none"]
    ELSE IF sp > 0
         THEN LET second == PutNowait(first.q, SpilloverMessage(sp)) IN
              IF second.exc = "QueueFull"
              THEN [q |-> second.q, spillover |-> sp + 1, exc |-> "none"]
              ELSE [q |-> second.q, spillover |-> 0, exc |-> "none"]
         ELSE [q |-> first.q, spillover |-> sp, exc |-> "none"]

\* mutant: self.spillover is reset whenever the record was enqueued
log_ResetAlways(queue, sp, message) ==
    LET first == PutNowait(queue, message) IN
    IF first.exc = "QueueFull"
    THEN [q |-> first.q, spillover |-> sp + 1, exc |-> "none"]
    ELSE IF sp > 0 /\ Len(first.q) < LOG_QUEUE_MAXSIZE
         THEN [q |-> Append(first.q, SpilloverMessage(sp)), spillover |-> 0,
               exc |-> "none"]
         ELSE [q |-> first.q, spillover |-> 0, exc |-> "none"]

\* mutant: self.spillover keeps its value when the notice was enqueued
log_NoticeKeepsCount(queue, sp, message) ==
    LET first == PutNowait(queue, message) IN
    IF first.exc = "QueueFull"
    THEN [q |-> first.q, spillover |-> sp + 1, exc |-> "none"]
    ELSE IF sp > 0 /\ Len(first.q) < LOG_QUEUE_MAXSIZE
         THEN [q |-> Append(first.q, SpilloverMessage(sp)), spillover |-> sp,
               exc |-> "none"]
         ELSE [q |-> first.q, spillover |-> sp, exc |-> "none"]

\* mutant: the except clause sets self.spillover to 1 instead of adding 1
log_ExceptSetsOne(queue, sp, message) ==
    LET first == PutNowait(queue, message) IN
    IF first.exc = "QueueFull"
    THEN [q |-> first.q, spillover |-> 1, exc |-> "none"]
    ELSE IF sp > 0 /\ Len(first.q) < LOG_QUEUE_MAXSIZE
         THEN [q |-> Append(first.q, SpilloverMessage(sp)), spillover |-> 0,
               exc |-> "none"]
         ELSE [q |-> first.q, spillover |-> sp, exc |-> "none"]

\* the body of the try statement of log() for a queue that is not None, with
\* its except clause: the queue afterwards, self.spillover afterwards and
\* the exception that leaves log(), if any
log(queue, sp, message) ==
    LET first == PutNowait(queue, message) IN
    IF first.exc = "QueueFull"
    THEN [q |-> first.q, spillover |-> sp + 1, exc |-> "none"]
    ELSE IF sp > 0 /\ Len(first.q) < LOG_QUEUE_MAXSIZE
         THEN LET second == PutNowait(first.q, SpilloverMessage(sp)) IN
              IF second.exc = "QueueFull"
              THEN [q |-> second.q, spillover |-> sp + 1, exc |-> "none"]
              ELSE [q |-> second.q, spillover |-> 0, exc |-> "none"]
         ELSE [q |-> first.q, spillover |-> sp, exc |-> "none"]

\* the items a log() call added to the queue
Added(before, after) == SubSeq(after, Len(before) + 1, Len(after))

\* log(): a synchronous method, one step of the caller
LogCall ==
    /\ MoreInputs
    /\ nlogs' = nlogs + 1
    /\ IF log_queue = None
       THEN /\ UNCHANGED <<queues, spillover, enq, dropped>>
            /\ burst' = 0
            /\ last' = Step("log", "none", nlogs + 1)
       ELSE LET r == log(queues[log_queue], spillover, ClientLog(nlogs + 1))
                new == Added(queues[log_queue], r.q)
            IN  /\ queues' = [queues EXCEPT ![log_queue] = r.q]
                /\ spillover' = r.spillover
                /\ enq' = [enq EXCEPT ![log_queue] = @ \o new]
                /\ dropped' = IF new = <<>> THEN dropped \cup {nlogs + 1}
                              ELSE dropped
                /\ burst' = IF is_connected /\ queues[log_queue] = <<>>
                               /\ spillover = 0
                            THEN 1
                            ELSE IF burst > 0 THEN burst + 1 ELSE 0
                /\ last' = Step("log", r.exc, nlogs + 1)
    /\ UNCHANGED <<client, console, sessClosed, wsState, sender, sending,
                   listener, nconn, pc, nframes, written, disc>>
    /\ UNCHANGED threads

\* ------------------------------------------------- log() run by threads
\* log() statement by statement, for callers on several threads: a thread
\* switch may fall between any two statements of the try block.
StartsOverlapped(t) == \E u \in Threads \ {t} : producer[u].pc # "idle"

\* lines 199-200: `if self.log_queue:` and the record's put_nowait
ProducerPut(t) ==
    /\ producer[t].pc = "idle"
    /\ MoreInputs
    /\ nlogs' = nlogs + 1
    /\ overlapped' = (overlapped \/ StartsOverlapped(t))
    /\ IF log_queue = None
       THEN UNCHANGED <<queues, enq, dropped, producer>>
       ELSE LET r == PutNowait(queues[log_queue], ClientLog(nlogs + 1)) IN
            /\ queues' = [queues EXCEPT ![log_queue] = r.q]
            /\ enq' = [enq EXCEPT ![log_queue] =
                          @ \o Added(queues[log_queue], r.q)]
            /\ dropped' = IF r.exc = "QueueFull"
                          THEN dropped \cup {nlogs + 1}
                          ELSE dropped
            /\ producer' = [producer EXCEPT ![t].pc =
                               IF r.exc = "QueueFull" THEN "except"
                               ELSE "check"]
    /\ last' = Step("producer", "none", nlogs + 1)
    /\ UNCHANGED <<client, spillover, console, sessClosed, wsState, sender,
                   sending, listener, nconn, pc, nframes, written, burst,
                   disc>>

\* line 201: `self.spillover > 0 and self.log_queue.qsize() < LOG_QUEUE_MAXSIZE`
ProducerCheck(t) ==
    /\ producer[t].pc = "check"
    /\ producer' = [producer EXCEPT ![t].pc =
                       IF spillover > 0
                          /\ Len(queues[log_queue]) < LOG_QUEUE_MAXSIZE
                       THEN "build"
                       ELSE "idle"]
    /\ last' = Step("producer", "none", 0)
    /\ UNCHANGED <<client, spillover, console, sessClosed, queues, wsState,
                   sender, sending, listener, nconn, pc, nlogs, nframes,
                   hist, overlapped>>

\* lines 204-211: the notice is built from self.spillover as it is now
ProducerBuild(t) ==
    /\ producer[t].pc = "build"
    /\ producer' = [producer EXCEPT ![t] = [pc |-> "notice", k |-> spillover]]
    /\ last' = Step("producer", "none", 0)
    /\ UNCHANGED <<client, spillover, console, sessClosed, queues, wsState,
                   sender, sending, listener, nconn, pc, nlogs, nframes,
                   hist, overlapped>>

\* line 212: the notice's put_nowait
ProducerNotice(t) ==
    /\ producer[t].pc = "notice"
    /\ LET r == PutNowait(queues[log_queue],
                          SpilloverMessage(producer[t].k)) IN
        /\ queues' = [queues EXCEPT ![log_queue] = r.q]
        /\ enq' = [enq EXCEPT ![log_queue] =
                      @ \o Added(queues[log_queue], r.q)]
        /\ producer' = [producer EXCEPT ![t] =
                           [pc |-> IF r.exc = "QueueFull" THEN "except"
                                   ELSE "reset",
                            k |-> 0]]
    /\ last' = Step("producer", "none", 0)
    /\ UNCHANGED <<client, spillover, console, sessClosed, wsState, sender,
                   sending, listener, nconn, pc, nlogs, nframes, written,
                   dropped, burst, disc, overlapped>>

\* line 213: `self.spillover = 0`
ProducerReset(t) ==
    /\ producer[t].pc = "reset"
    /\ spillover' = 0
    /\ producer' = [producer EXCEPT ![t] = Idle]
    /\ last' = Step("producer", "none", 0)
    /\ UNCHANGED <<client, console, sessClosed, queues, wsState, sender,
                   sending, listener, nconn, pc, nlogs, nframes, hist,
                   overlapped>>

\* mutant: the except clause counts two
ProducerExcept_Twice(t) ==
    /\ producer[t].pc = "except"
    /\ spillover' = spillover + 2
    /\ producer' = [producer EXCEPT ![t] = Idle]
    /\ last' = Step("producer", "none", 0)
    /\ UNCHANGED <<client, console, sessClosed, queues, wsState, sender,
                   sending, listener, nconn, pc, nlogs, nframes, hist,
                   overlapped>>

\* lines 214-215: `except QueueFull: self.spillover += 1`
ProducerExcept(t) ==
    /\ producer[t].pc = "except"
    /\ spillover' = spillover + 1
    /\ producer' = [producer EXCEPT ![t] = Idle]
    /\ last' = Step("producer", "none", 0)
    /\ UNCHANGED <<client, console, sessClosed, queues, wsState, sender,
                   sending, listener, nconn, pc, nlogs, nframes, hist,
                   overlapped>>

\* ---------------------------------------------------------------- connect()
\* what `await self.session.ws_connect(...)` can end with
WsConnectOutcomes ==
    {"ok", "ClientConnectorError", "ClientResponseError", "TimeoutError"}

\* the except clause of connect(): the exception that leaves connect()
ConnectRaises(outcome) ==
    IF outcome \in {"ClientConnectorError", "ClientResponseError"}
    THEN "DevtoolsConnectionError"
    ELSE IF outcome = "ok" THEN "none" ELSE outcome

\* connect() up to its await: a new ClientSession and a new Queue
ConnectCall ==
    /\ pc = "idle"
    /\ nconn < MaxConnects
    /\ MoreInputs
    /\ nconn' = nconn + 1
    /\ session' = nconn + 1
    /\ log_queue' = nconn + 1
    /\ pc' = "ws_connect"
    /\ burst' = 0
    /\ last' = Step("connect_call", "none", 0)
    /\ UNCHANGED <<websocket, log_queue_task, update_console_task, spillover,
                   console, sessClosed, queues, wsState, sender, sending,
                   listener, nlogs, nframes, enq, written, dropped, disc>>
    /\ UNCHANGED threads

\* connect() from the end of ws_connect: either the except clause raises, or
\* the websocket is stored and both tasks are created
ConnectReturn(outcome) ==
    /\ pc = "ws_connect"
    /\ pc' = "idle"
    /\ last' = Step("connect", ConnectRaises(outcome), 0)
    /\ IF outcome = "ok"
       THEN /\ websocket' = session
            /\ wsState' = [wsState EXCEPT ![session] = "open"]
            /\ log_queue_task' = log_queue
            /\ update_console_task' = session
            /\ sender' = [sender EXCEPT ![log_queue] = "running"]
            /\ listener' = [listener EXCEPT ![session] = "running"]
       ELSE UNCHANGED <<websocket, wsState, log_queue_task,
                        update_console_task, sender, listener>>
    /\ UNCHANGED <<session, log_queue, spillover, console, sessClosed, queues,
                   sending, nconn, nlogs, nframes, hist>>
    /\ UNCHANGED threads

\* ---------------------------------------------------------------- Sender
\* mutant: get() hands out the newest item
QueueGet_Newest(queue) ==
    [item |-> queue[Len(queue)], q |-> SubSeq(queue, 1, Len(queue) - 1)]

\* `await log_queue.get()`: the oldest item and the queue without it
QueueGet(queue) == [item |-> Head(queue), q |-> Tail(queue)]

\* mutant: the sentinel is taken for a log
IsClientShutdown_Never(item) == FALSE

\* `if log is ClientShutdown`
IsClientShutdown(item) == item = ClientShutdown

\* send_queued_logs, lines 125-128: take one item; the sentinel ends the loop
SenderGet(s) ==
    /\ sender[s] = "running"
    /\ queues[s] # <<>>
    /\ LET g == QueueGet(queues[s]) IN
        /\ queues' = [queues EXCEPT ![s] = g.q]
        /\ IF IsClientShutdown(g.item)
           THEN /\ sender' = [sender EXCEPT ![s] = "done"]
                /\ UNCHANGED sending
           ELSE /\ sender' = [sender EXCEPT ![s] = "sending"]
                /\ sending' = [sending EXCEPT ![s] = g.item]
        /\ last' = Step("task", "none", 0)
    /\ burst' = IF s = log_queue THEN 0 ELSE burst
    /\ UNCHANGED <<client, spillover, console, sessClosed, wsState, listener,
                   nconn, pc, nlogs, nframes, enq, written, dropped, disc>>
    /\ UNCHANGED threads

\* the Sender after `await websocket.send_str(log)`: back to the loop when
\* the write succeeded, ended by the exception when it failed
AfterSend(ok) == IF ok THEN "running" ELSE "failed"

\* send_queued_logs, lines 129-130: write the item held
SenderWrite(s, ok) ==
    /\ sender[s] = "sending"
    /\ sender' = [sender EXCEPT ![s] = AfterSend(ok)]
    /\ written' = [written EXCEPT ![s] = IF ok THEN Append(@, sending[s]) ELSE @]
    /\ sending' = [sending EXCEPT ![s] = ClientShutdown]
    /\ last' = Step("task", "none", 0)
    /\ UNCHANGED <<client, spillover, console, sessClosed, queues, wsState,
                   listener, nconn, pc, nlogs, nframes, enq, dropped, burst,
                   disc>>
    /\ UNCHANGED threads

\* ---------------------------------------------------------------- Listener
\* mutant: the payload of a message of any type is applied
update_console_AnyType(c, m) ==
    IF m.mtype # "TEXT" THEN [console |-> c, exc |-> "none"]
    ELSE IF ~m.json THEN [console |-> c, exc |-> "JSONDecodeError"]
    ELSE IF ~m.hasType THEN [console |-> c, exc |-> "KeyError"]
    ELSE IF ~m.hasPayload THEN [console |-> c, exc |-> "KeyError"]
    ELSE IF ~m.hasWidth THEN [console |-> c, exc |-> "KeyError"]
    ELSE IF ~m.hasHeight
         THEN [console |-> [c EXCEPT !.width = m.width], exc |-> "KeyError"]
    ELSE [console |-> [width |-> m.width, height |-> m.height],
          exc |-> "none"]

\* the body of update_console's loop for one message: the console afterwards
\* and the exception that ends the task, if any
update_console(c, m) ==
    IF m.mtype # "TEXT" THEN [console |-> c, exc |-> "none"]
    ELSE IF ~m.json THEN [console |-> c, exc |-> "JSONDecodeError"]
    ELSE IF ~m.hasType THEN [console |-> c, exc |-> "KeyError"]
    ELSE IF m.type # "server_info" THEN [console |-> c, exc |-> "none"]
    ELSE IF ~m.hasPayload THEN [console |-> c, exc |-> "KeyError"]
    ELSE IF ~m.hasWidth THEN [console |-> c, exc |-> "KeyError"]
    ELSE IF ~m.hasHeight
         THEN [console |-> [c EXCEPT !.width = m.width], exc |-> "KeyError"]
    ELSE [console |-> [width |-> m.width, height |-> m.height],
          exc |-> "none"]

\* update_console receives one message from its websocket
ListenerReceive(s, m) ==
    /\ listener[s] = "running"
    /\ wsState[s] = "open"
    /\ nframes < MaxFrames
    /\ MoreInputs
    /\ nframes' = nframes + 1
    /\ LET r == update_console(console, m) IN
        /\ console' = r.console
        /\ listener' = [listener EXCEPT
                          ![s] = IF r.exc = "none" THEN "running" ELSE "failed"]
        /\ last' = Step("update_console", r.exc,
                      IF m.mtype = "TEXT" /\ m.type = "server_info" THEN 1 ELSE 0)
    /\ UNCHANGED <<client, spillover, sessClosed, queues, wsState, sender,
                   sending, nconn, pc, nlogs, hist>>
    /\ UNCHANGED threads

\* the server closes the websocket: the `async for` ends
ListenerCloseMessage(s) ==
    /\ listener[s] = "running"
    /\ wsState[s] = "open"
    /\ wsState' = [wsState EXCEPT ![s] = "closed"]
    /\ listener' = [listener EXCEPT ![s] = "done"]
    /\ last' = Step("task", "none", 0)
    /\ UNCHANGED <<client, spillover, console, sessClosed, queues, sender,
                   sending, nconn, pc, nlogs, nframes, hist>>
    /\ UNCHANGED threads

\* the websocket was closed by disconnect(): the `async for` ends
ListenerSocketClosed(s) ==
    /\ listener[s] = "running"
    /\ wsState[s] = "closed"
    /\ listener' = [listener EXCEPT ![s] = "done"]
    /\ last' = Step("task", "none", 0)
    /\ UNCHANGED <<client, spillover, console, sessClosed, queues, wsState,
                   sender, sending, nconn, pc, nlogs, nframes, hist>>
    /\ UNCHANGED threads

\* ---------------------------------------------------------------- disconnect()
\* mutant: the sentinel jumps the queue
QueuePut_Front(queue, item) == <<item>> \o queue

\* `await self.log_queue.put(ClientShutdown)` once the queue has room
QueuePut(queue, item) == Append(queue, item)

HasShutdown(items) == \E i \in 1..Len(items) : items[i] = ClientShutdown

\* the put of line 141 on the client's queue
PutShutdown ==
    /\ queues' = [queues EXCEPT ![log_queue] = QueuePut(@, ClientShutdown)]
    /\ enq' = [enq EXCEPT ![log_queue] = Append(@, ClientShutdown)]
    /\ burst' = 0

\* disconnect() is called: _stop_log_queue_processing up to its first point
\* of suspension (put() does not suspend when the queue has room)
DisconnectCall ==
    /\ pc = "idle"
    /\ disc' = [lq |-> log_queue,
                mark |-> IF log_queue = None THEN 0 ELSE Len(enq[log_queue]),
                first |-> /\ log_queue # None
                          /\ log_queue_task = log_queue
                          /\ ~HasShutdown(enq[log_queue]),
                connected |-> is_connected]
    /\ last' = Step("disconnect_call", "none", 0)
    /\ IF log_queue = None
       THEN /\ pc' = "join_sender"
            /\ UNCHANGED <<queues, enq, burst>>
       ELSE IF Full(queues[log_queue])
       THEN /\ pc' = "put"
            /\ UNCHANGED <<queues, enq, burst>>
       ELSE /\ pc' = "join_sender"
            /\ PutShutdown
    /\ UNCHANGED <<client, spillover, console, sessClosed, wsState, sender,
                   sending, listener, nconn, nlogs, nframes, written, dropped>>
    /\ UNCHANGED threads

\* line 141 when put() had to wait: a slot has become free
DisconnectPut ==
    /\ pc = "put"
    /\ ~Full(queues[log_queue])
    /\ PutShutdown
    /\ pc' = "join_sender"
    /\ last' = Step("put", "none", 0)
    /\ UNCHANGED <<client, spillover, console, sessClosed, wsState, sender,
                   sending, listener, nconn, nlogs, nframes, written, dropped,
                   disc>>
    /\ UNCHANGED threads

\* mutant: disconnect() does not wait for a running task
Await_NoWait(t) == IF t = "failed" THEN "TaskError" ELSE "none"

\* what `await task` gives for a task in state t: "wait" while it runs, the
\* task's exception when it ended by one
Await(t) ==
    IF t = "done" THEN "none"
    ELSE IF t = "failed" THEN "TaskError"
    ELSE "wait"

\* lines 142-143: `if self.log_queue_task: await self.log_queue_task`
DisconnectJoinSender ==
    /\ pc = "join_sender"
    /\ LET a == IF log_queue_task = None THEN "none"
                ELSE Await(sender[log_queue_task]) IN
        /\ a # "wait"
        /\ pc' = IF a = "none" THEN "close_ws" ELSE "idle"
        /\ last' = IF a = "none" THEN Step("join_sender", "none", 0)
                   ELSE Step("disconnect", a, 0)
    /\ UNCHANGED <<client, spillover, console, sessClosed, queues, wsState,
                   sender, sending, listener, nconn, nlogs, nframes, hist>>
    /\ UNCHANGED threads

\* lines 149-150: `if self.websocket: await self.websocket.close()`
DisconnectCloseWebsocket ==
    /\ pc = "close_ws"
    /\ wsState' = IF websocket = None THEN wsState
                  ELSE [wsState EXCEPT ![websocket] = "closed"]
    /\ pc' = "join_listener"
    /\ last' = Step("close_ws", "none", 0)
    /\ UNCHANGED <<client, spillover, console, sessClosed, queues, sender,
                   sending, listener, nconn, nlogs, nframes, hist>>
    /\ UNCHANGED threads

\* lines 151-152: `if self.update_console_task: await self.update_console_task`
DisconnectJoinListener ==
    /\ pc = "join_listener"
    /\ LET a == IF update_console_task = None THEN "none"
                ELSE Await(listener[update_console_task]) IN
        /\ a # "wait"
        /\ pc' = IF a = "none" THEN "close_session" ELSE "idle"
        /\ last' = IF a = "none" THEN Step("join_listener", "none", 0)
                   ELSE Step("disconnect", a, 0)
    /\ UNCHANGED <<client, spillover, console, sessClosed, queues, wsState,
                   sender, sending, listener, nconn, nlogs, nframes, hist>>
    /\ UNCHANGED threads

\* lines 153-154: `if self.session: await self.session.close()`; disconnect()
\* returns
DisconnectCloseSession ==
    /\ pc = "close_session"
    /\ sessClosed' = IF session = None THEN sessClosed
                     ELSE [sessClosed EXCEPT ![session] = TRUE]
    /\ pc' = "idle"
    /\ last' = Step("disconnect", "none", 0)
    /\ UNCHANGED <<client, spillover, console, queues, wsState, sender,
                   sending, listener, nconn, nlogs, nframes, hist>>
    /\ UNCHANGED threads

\* ---------------------------------------------------------------- system
Next ==
    \/ LogCall
    \/ ConnectCall
    \/ \E outcome \in WsConnectOutcomes : ConnectReturn(outcome)
    \/ \E s \in Objs : SenderGet(s)
    \/ \E s \in Objs, ok \in BOOLEAN : SenderWrite(s, ok)
    \/ \E s \in Objs, m \in Messages : ListenerReceive(s, m)
    \/ \E s \in Objs : ListenerCloseMessage(s)
    \/ \E s \in Objs : ListenerSocketClosed(s)
    \/ DisconnectCall
    \/ DisconnectPut
    \/ DisconnectJoinSender
    \/ DisconnectCloseWebsocket
    \/ DisconnectJoinListener
    \/ DisconnectCloseSession

Spec == Init /\ [][Next]_vars

\* a client whose log() is called from two threads, with the Sender
\* draining the queue
NextThreads ==
    \/ ConnectCall
    \/ \E outcome \in WsConnectOutcomes : ConnectReturn(outcome)
    \/ \E s \in Objs : SenderGet(s)
    \/ \E s \in Objs, ok \in BOOLEAN : SenderWrite(s, ok)
    \/ \E t \in Threads : ProducerPut(t)
    \/ \E t \in Threads : ProducerCheck(t)
    \/ \E t \in Threads : ProducerBuild(t)
    \/ \E t \in Threads : ProducerNotice(t)
    \/ \E t \in Threads : ProducerReset(t)
    \/ \E t \in Threads : ProducerExcept(t)

SpecThreads == Init /\ [][NextThreads]_vars

\* The event loop runs every task that is ready: a Sender whose queue has
\* an item or whose write is under way, a Listener whose socket was closed,
\* a connect() whose handshake is under way, and disconnect() whenever what
\* it awaits is done.  log(), new calls and inbound frames are the
\* environment's and need not happen.
Fairness ==
    /\ \A s \in Objs :
          /\ WF_vars(SenderGet(s))
          /\ WF_vars(\E ok \in BOOLEAN : SenderWrite(s, ok))
          /\ WF_vars(ListenerSocketClosed(s))
    /\ WF_vars(\E outcome \in WsConnectOutcomes : ConnectReturn(outcome))
    /\ WF_vars(DisconnectPut)
    /\ WF_vars(DisconnectJoinSender)
    /\ WF_vars(DisconnectCloseWebsocket)
    /\ WF_vars(DisconnectJoinListener)
    /\ WF_vars(DisconnectCloseSession)

FairSpec == Init /\ [][Next]_vars /\ Fairness

\* ---------------------------------------------------------------- properties
IsPrefix(a, b) == Len(a) <= Len(b) /\ \A i \in 1..Len(a) : a[i] = b[i]
IsShutdown(x) == x = ClientShutdown
NotShutdown(x) == x # ClientShutdown
Records(items) == SelectSeq(items, NotShutdown)
Notices(items) == SelectSeq(items, LAMBDA x : x.type = "client_spillover")
\* index of the first sentinel among items (0 when there is none)
FirstShutdown(items) ==
    IF HasShutdown(items)
    THEN CHOOSE i \in 1..Len(items) :
            /\ items[i] = ClientShutdown
            /\ \A j \in 1..(i - 1) : items[j] # ClientShutdown
    ELSE 0
NoWriteFailed == \A s \in Objs : sender[s] # "failed"
IsLogStep == nlogs' = nlogs + 1
QueueOf(lq) == IF lq = None THEN <<>> ELSE queues[lq]

\* C1: log() never blocks and never raises.  Whatever state the client is
\* in, a log() call can be made, and it is one step of its caller that ends
\* without an exception and leaves the caller of connect()/disconnect()
\* where it was; when the queue is full the step adds one to self.spillover
\* and leaves every queue as it was.
C1_LogNeverBlocksNorRaises ==
    /\ [](MoreInputs => ENABLED LogCall)
    /\ [][IsLogStep =>
            /\ last'.op = "log"
            /\ last'.exc = "none"
            /\ pc' = pc
            /\ (log_queue # None /\ Full(queues[log_queue]) =>
                  /\ spillover' = spillover + 1
                  /\ queues' = queues)]_vars

\* C1 witness: a log() call met the full queue of a client whose Sender had
\* died on a failed write, and returned
C1_Witness ==
    /\ last.op = "log"
    /\ last.n \in dropped
    /\ log_queue # None
    /\ Full(queues[log_queue])
    /\ sender[log_queue] = "failed"

\* C2: capacity + K log() calls (K > 0) made from an open Session with an
\* empty queue and spillover 0, with nothing dequeued in between, leave
\* spillover = K and the queue holding exactly capacity client_log records,
\* the K last calls being the ones dropped.
C2_OverflowCounts ==
    burst > LOG_QUEUE_MAXSIZE =>
        /\ spillover = burst - LOG_QUEUE_MAXSIZE
        /\ Len(queues[log_queue]) = LOG_QUEUE_MAXSIZE
        /\ \A i \in 1..Len(queues[log_queue]) :
              queues[log_queue][i].type = "client_log"
        /\ \A n \in (nlogs - spillover + 1)..nlogs : n \in dropped

\* C2 witness: two calls beyond capacity
C2_Witness == burst = LOG_QUEUE_MAXSIZE + 2 /\ spillover = 2

\* C3: on every Session the frames written are a prefix of the records and
\* notices put on that Session's queue, in that order, and no record whose
\* put met a full queue is ever written.
C3_WrittenPrefixOfEnqueued ==
    \A s \in Objs :
        /\ IsPrefix(written[s], Records(enq[s]))
        /\ \A i \in 1..Len(written[s]) :
              written[s][i].type = "client_log" => written[s][i].n \notin dropped

\* C3 witness: a record, then a spillover notice were written after a drop
C3_Witness ==
    \E s \in Objs :
        /\ Len(written[s]) >= 3
        /\ Notices(written[s]) # <<>>
        /\ dropped # {}

\* the state in which disconnect() has just returned normally
DisconnectReturned == last.op = "disconnect" /\ last.exc = "none"

C5_Original ==
    [][(IsLogStep /\ log_queue # None /\ spillover > 0
          /\ Len(QueueOf(log_queue)) = LOG_QUEUE_MAXSIZE - 1) =>
         /\ spillover' = 0
         /\ Len(Notices(Added(queues[log_queue], queues'[log_queue]))) = 1]_vars

\* C5 (amended): with spillover > 0, a log() call that finds at least two
\* free slots enqueues its record and directly behind it one notice carrying
\* the counter, and resets the counter; a call that finds exactly one free
\* slot enqueues only its record and leaves the counter as it was.
C5_NoticeNeedsSecondSlot ==
    [][(IsLogStep /\ log_queue # None /\ spillover > 0) =>
         LET before == queues[log_queue]
             after == queues'[log_queue]
             free == LOG_QUEUE_MAXSIZE - Len(before)
         IN  /\ free >= 2 =>
                  /\ after = before \o <<ClientLog(nlogs'), SpilloverMessage(spillover)>>
                  /\ spillover' = 0
             /\ free = 1 =>
                  /\ after = Append(before, ClientLog(nlogs'))
                  /\ spillover' = spillover]_vars

\* C5 witness: the queue was filled, a record was dropped, the Sender drained
\* it and the next log() call put its record and the notice
C5_Witness ==
    /\ last.op = "log"
    /\ log_queue # None
    /\ spillover = 0
    /\ Len(enq[log_queue]) >= LOG_QUEUE_MAXSIZE + 2
    /\ Len(queues[log_queue]) >= 2
    /\ queues[log_queue][Len(queues[log_queue])].type = "client_spillover"
    /\ queues[log_queue][Len(queues[log_queue]) - 1] = ClientLog(last.n)

\* C6 as claimed: a connect() that fails raises DevtoolsConnectionError and
\* leaves no open session, no queue for log() to fill, no task of the new
\* Session, and is_connected false.
C6_Claim ==
    (last.op = "connect" /\ last.exc # "none") =>
        /\ last.exc = "DevtoolsConnectionError"
        /\ session = None \/ sessClosed[session]
        /\ log_queue = None
        /\ ~is_connected

C8_Claim ==
    [][\A s \in Objs, m \in Messages :
         (ListenerReceive(s, m) /\ ~WellFormed(m)) =>
            /\ listener'[s] = "running"
            /\ console' = console]_vars

\* C9 as claimed: after a write failed in the Sender, disconnect() returns
\* normally and has closed the websocket and the session.
C9_Claim ==
    (/\ last.op = "disconnect"
     /\ log_queue_task # None
     /\ sender[log_queue_task] = "failed") =>
        /\ last.exc = "none"
        /\ wsState[websocket] = "closed"
        /\ sessClosed[session]

\* C10: a well-formed server_info message sets the console's width and
\* height to its payload's; a well-formed message of any other type leaves
\* width, height, the queues and self.spillover as they were; and the
\* console's width and height change in no step other than the receipt of a
\* server_info message.
C10_ServerDrivenGeometry ==
    [][/\ \A s \in Objs, m \in Messages :
            (ListenerReceive(s, m) /\ WellFormed(m)) =>
               IF m.mtype = "TEXT" /\ m.type = "server_info"
               THEN console' = [width |-> m.width, height |-> m.height]
               ELSE UNCHANGED <<console, queues, spillover>>
       /\ console' # console =>
            \E s \in Objs, m \in Messages :
               /\ ListenerReceive(s, m)
               /\ m.mtype = "TEXT" /\ m.json /\ m.hasType
               /\ m.type = "server_info"]_vars

\* C10 witness: after server_info set 100 x 40, a message of another type
\* was received and the console still is 100 x 40
C10_Witness ==
    /\ last.op = "update_console"
    /\ last.exc = "none"
    /\ last.n = 0
    /\ nframes = 2
    /\ console = [width |-> 100, height |-> 40]

\* ------------------------------------------------------------------ C11
\* C11: is_connected is true only if the client has a session and a
\* websocket and neither reports closed; it is false before the first
\* connect(), false once the websocket has been closed by either side, and
\* false when a disconnect() call has ended, by returning or by raising,
\* whether or not the Sender or the Listener had failed before.
C11_Claim ==
    /\ is_connected =>
         /\ session # None /\ websocket # None
         /\ ~sessClosed[session] /\ wsState[websocket] = "open"
    /\ nconn = 0 => ~is_connected
    /\ (websocket # None /\ wsState[websocket] = "closed") => ~is_connected
    /\ last.op = "disconnect" => ~is_connected

\* ------------------------------------------------------------------ C12
\* the Sender and the Listener tasks that have been created and have not
\* ended
RunningSenders == {s \in Objs : sender[s] \in {"running", "sending"}}
RunningListeners == {s \in Objs : listener[s] = "running"}

\* C12: in every reachable state in which is_connected is true, exactly one
\* Sender task and exactly one Listener task are running for the client.
C12_Claim ==
    is_connected =>
        /\ Cardinality(RunningSenders) = 1
        /\ Cardinality(RunningListeners) = 1

\* ------------------------------------------------------------------ C13
\* C13: with log() run by one caller at a time, self.spillover is never
\* negative and changes in two ways only: it rises by exactly 1 in a log()
\* step whose put_nowait found the queue full, and in every such step; and
\* it falls only to 0, in a log() step that has just enqueued its record and
\* behind it a notice carrying the old count.  No step of a Sender, of a
\* Listener, of connect() or of disconnect() changes it.
C13_SpilloverChanges ==
    /\ [](spillover \in Nat)
    /\ [][/\ ~IsLogStep => spillover' = spillover
          /\ spillover' > spillover =>
                /\ IsLogStep /\ log_queue # None
                /\ Full(queues[log_queue])
                /\ spillover' = spillover + 1
                /\ queues' = queues
          /\ spillover' < spillover =>
                /\ IsLogStep /\ log_queue # None
                /\ spillover' = 0
                /\ Added(queues[log_queue], queues'[log_queue]) =
                      <<ClientLog(nlogs'), SpilloverMessage(spillover)>>
          /\ (IsLogStep /\ log_queue # None /\ Full(queues[log_queue])) =>
                spillover' = spillover + 1]_vars

\* C13 witness: a log() call has just reset the count of 1 to 0, its notice
\* is the newest item of the queue
C13_Witness ==
    /\ last.op = "log"
    /\ spillover = 0
    /\ log_queue # None
    /\ Len(queues[log_queue]) >= 2
    /\ queues[log_queue][Len(queues[log_queue])] = SpilloverMessage(1)
    /\ Cardinality(dropped) = 1

\* ------------------------------------------------------------------ C14
\* C14: a spillover notice is enqueued only by a log() call, on the client's
\* queue, directly behind the record that call has just enqueued, and this
\* happens if and only if self.spillover > 0 and a slot is free after the
\* record; the notice carries the count and the count becomes 0.  When no
\* slot is free after the record no notice is enqueued and the count stays;
\* no log() call enqueues more than one notice.
C14_NoticeFlush ==
    [][\A s \in Objs :
          LET new == Added(enq[s], enq'[s])
              free == LOG_QUEUE_MAXSIZE - Len(queues[s])
              flush == /\ IsLogStep /\ s = log_queue
                       /\ spillover > 0 /\ free >= 2
          IN  /\ IsPrefix(enq[s], enq'[s])
              /\ Len(Notices(new)) <= 1
              /\ Len(Notices(new)) = 1 <=> flush
              /\ flush =>
                    /\ new = <<ClientLog(nlogs'), SpilloverMessage(spillover)>>
                    /\ queues'[s] = queues[s] \o new
                    /\ spillover' = 0
              /\ (IsLogStep /\ s = log_queue /\ free = 1) =>
                    /\ new = <<ClientLog(nlogs')>>
                    /\ spillover' = spillover]_vars

\* C14 witness: with a count pending, a log() call found one free slot; its
\* record fills the queue, no notice was enqueued and the count is kept
C14_Witness ==
    /\ last.op = "log"
    /\ log_queue # None
    /\ spillover > 0
    /\ last.n \notin dropped
    /\ Full(queues[log_queue])
    /\ queues[log_queue][Len(queues[log_queue])] = ClientLog(last.n)
    /\ Notices(enq[log_queue]) = <<>>

\* ------------------------------------------------------------------ C15
\* the drops that the notices enqueued so far report, over all queues
RECURSIVE SpilloverSum(_)
SpilloverSum(items) ==
    IF items = <<>>
    THEN 0
    ELSE (IF Head(items).type = "client_spillover" THEN Head(items).n ELSE 0)
         + SpilloverSum(Tail(items))

RECURSIVE ReportedUpTo(_)
ReportedUpTo(s) ==
    IF s = 0 THEN 0 ELSE SpilloverSum(enq[s]) + ReportedUpTo(s - 1)

Reported == ReportedUpTo(MaxConnects)

\* the accounting: records dropped = drops reported + drops still counted
Conserved == Cardinality(dropped) = Reported + spillover
Quiescent == \A t \in Threads : producer[t].pc = "idle"

\* C15: log() is not atomic.  Run by two threads, statement by statement,
\* it keeps the spillover accounting only as long as no two calls have
\* overlapped: whenever no call is in progress and none has overlapped
\* another, the records dropped equal the drops reported in notices plus
\* self.spillover.  (With overlapping calls the state of C15_Witness is
\* reached, where they differ.)
C15_SequentialCallsConserve ==
    (Quiescent /\ ~overlapped) => Conserved

\* C15 witness: two calls have overlapped, both are over, and the drops
\* reported plus self.spillover differ from the records dropped
C15_Witness ==
    /\ overlapped
    /\ Quiescent
    /\ ~Conserved

\* ------------------------------------------------------------------ C16
\* C16: no queue ever holds more than LOG_QUEUE_MAXSIZE items, records,
\* notices and the sentinel counted alike: neither the notice that log()
\* adds behind its record nor the sentinel that disconnect() puts, waiting
\* when the queue is full, takes it past its capacity.
C16_BoundedQueue ==
    \A s \in Objs : Len(queues[s]) <= LOG_QUEUE_MAXSIZE

\* C16 witness: disconnect() had to wait for a slot and has now put the
\* sentinel; the queue is at capacity again and holds a notice as well
C16_Witness ==
    /\ last.op = "put"
    /\ Len(queues[log_queue]) = LOG_QUEUE_MAXSIZE
    /\ queues[log_queue][Len(queues[log_queue])] = ClientShutdown
    /\ \E i \in 1..Len(queues[log_queue]) :
          queues[log_queue][i].type = "client_spillover"

\* ------------------------------------------------------------------ C17
\* what was put on a queue before its first sentinel
BeforeShutdown(items) ==
    IF HasShutdown(items)
    THEN SubSeq(items, 1, FirstShutdown(items) - 1)
    ELSE items

\* C17: once the sentinel is on a queue, a log() call that finds room still
\* adds its record to that queue, but nothing behind the sentinel is ever
\* written: the frames written on a Session are among the items put before
\* the sentinel, and a Sender that has taken the sentinel stays ended, writes
\* nothing more and takes nothing more from its queue.
C17_NothingBehindSentinelSent ==
    /\ [](\A s \in Objs : IsPrefix(written[s], BeforeShutdown(enq[s])))
    /\ [][/\ \A s \in Objs :
               sender[s] = "done" =>
                  /\ sender'[s] = "done"
                  /\ written'[s] = written[s]
                  /\ IsPrefix(queues[s], queues'[s])
          /\ (/\ IsLogStep /\ log_queue # None
              /\ HasShutdown(enq[log_queue])
              /\ ~Full(queues[log_queue])) =>
                 /\ Len(queues'[log_queue]) > Len(queues[log_queue])
                 /\ queues'[log_queue][Len(queues[log_queue]) + 1] =
                       ClientLog(nlogs')]_vars

\* C17 witness: the Sender has ended on the sentinel, and a log() call
\* made since has left its record on the queue
C17_Witness ==
    /\ last.op = "log"
    /\ log_queue # None
    /\ sender[log_queue] = "done"
    /\ HasShutdown(enq[log_queue])
    /\ queues[log_queue] # <<>>
    /\ queues[log_queue][Len(queues[log_queue])] = ClientLog(last.n)

\* ------------------------------------------------------------------ C18
\* C18: with log() run by one caller at a time, in every reachable state the
\* number of log() calls whose put_nowait found the queue full equals the
\* sum of the counts carried by all notices enqueued so far plus the current
\* value of self.spillover.
C18_SpilloverConserved ==
    Cardinality(dropped) = spillover + Reported

\* C18 witness: one record was dropped, a later call reported it in a notice
\* and the Sender has written that notice
C18_Witness ==
    /\ Cardinality(dropped) = 1
    /\ spillover = 0
    /\ \E s \in Objs : Notices(written[s]) = <<SpilloverMessage(1)>>

\* ------------------------------------------------------------------ C19
\* a disconnect() call made on a connected client is under way
DisconnectPending ==
    /\ pc \in {"put", "join_sender", "close_ws", "join_listener",
               "close_session"}
    /\ disc.connected
NoListenerFailed == \A s \in Objs : listener[s] # "failed"

\* C19: under fair scheduling of the tasks, a disconnect() call made on a
\* connected client eventually returns, unless a socket write fails or an
\* inbound frame ends the Listener; this also when the queue was full at the
\* call and when log() is called while the call is under way.
C19_Claim ==
    (DisconnectPending /\ NoWriteFailed /\ NoListenerFailed)
        ~> (DisconnectReturned \/ ~NoWriteFailed \/ ~NoListenerFailed)

\* ------------------------------------------------------------------ C20
\* C20: self.spillover is scoped to one Session: drops counted during an
\* earlier Session, or after its disconnect(), are not carried into the
\* next, so that right after a successful connect() self.spillover is 0.
\* (Records dropped on the new queue while the handshake was under way belong
\* to the new Session; they leave the new queue full, which is set aside.)
C20_Claim ==
    (/\ last.op = "connect" /\ last.exc = "none"
     /\ ~Full(queues[log_queue])) =>
        spillover = 0
====
